---- MODULE Spec2Model ----
(***************************************************************************)
(* A model of finalbayesreg.py: the window extractor, effective-center     *)
(* selection, the two row-building loops over a price period and the two   *)
(* trading simulators.  Python sequences are TLA+ sequences; every index   *)
(* of the source is 0-based and is translated by At and Slice below.       *)
(***************************************************************************)
EXTENDS Integers, Sequences, FiniteSets, TLC

VARIABLES
  prices,         \* the price period handed to the function under study
  dps,            \* the Signal: predict_dps's list / the simulators' argument
  t,              \* the simulators' threshold
  step,           \* the simulators' stride
  pc,             \* position in the running function
  i,              \* the loop variable of the running function
  position,       \* evaluate_performance: position
  bank_balance,   \* evaluate_performance: bank_balance
  bitcoin,        \* evaluate_performance2: bitcoin
  bank_balance2,  \* evaluate_performance2: bank_balance2
  tradesA,        \* log: the trades evaluate_performance made, <<kind, i>>
  evalA,          \* log: the timesteps evaluate_performance evaluated
  tradesB,        \* log: the trades evaluate_performance2 made
  evalB,          \* log: the timesteps evaluate_performance2 evaluated
  n,              \* generate_timeseries / choose_effective_centers: n
  m,              \* generate_timeseries: m
  ts,             \* generate_timeseries: the array ts, a sequence of rows
  X,              \* linear_regression_vars: the design matrix X
  Y,              \* linear_regression_vars: the labels Y
  w,              \* predict_dps: the blend weights (w0, w1, w2, w3)
  s1, s2, s3,     \* the three libraries of effective centers
  centers,        \* choose_effective_centers: the k centroids, rows
  ptp,            \* choose_effective_centers: np.ptp(centers, axis=1)
  order,          \* choose_effective_centers: np.argsort(...), 0-based rows
  chosen,         \* choose_effective_centers: the rows returned
  err             \* the exception raised, or "none"

simIn   == <<prices, dps, t, step>>
simA    == <<position, bank_balance, tradesA, evalA>>
simB    == <<bitcoin, bank_balance2, tradesB, evalB>>
winV    == <<n, m, ts>>
pipeV   == <<X, Y, w, s1, s2, s3>>
cenV    == <<centers, ptp, order, chosen>>
notSim  == <<winV, pipeV, cenV, err>>
vars    == <<prices, dps, t, step, pc, i, position, bank_balance, bitcoin,
             bank_balance2, tradesA, evalA, tradesB, evalB, n, m, ts, X, Y, w,
             s1, s2, s3, centers, ptp, order, chosen, err>>

(***************************************************************************)
(* Program constants and model bounds.                                     *)
(***************************************************************************)
Scale1 == 180
Scale2 == 360
Scale3 == 720

\* a period has at most Scale3 + MaxTail prices
MaxTail == 5
\* strides 1..MaxStep
MaxStep == 3
\* the window extractor's price sequences have at most MaxLen prices
MaxLen == 5
\* the clusterer hands over at most MaxK centroids
MaxK == 3
\* a centroid has FeatureDim feature coordinates and one label coordinate
FeatureDim == 2

(***************************************************************************)
(* Python indexing.                                                        *)
(***************************************************************************)
Min(a, b) == IF a <= b THEN a ELSE b
Max(a, b) == IF a >= b THEN a ELSE b

\* s[k] is defined (no IndexError)
InRange(s, k) == -Len(s) <= k /\ k < Len(s)
\* s[k], k a Python index (negative counts from the end)
At(s, k) == IF k >= 0 THEN s[k + 1] ELSE s[Len(s) + k + 1]
\* a slice bound as Python normalises it
Norm(k, len) == IF k < 0 THEN Max(k + len, 0) ELSE Min(k, len)
\* s[a:b]
Slice(s, a, b) ==
  LET lo == Norm(a, Len(s))
      hi == Norm(b, Len(s))
  IN  IF lo >= hi THEN <<>> ELSE SubSeq(s, lo + 1, hi)
\* s[a:]
SliceFrom(s, a) == Slice(s, a, Len(s))

(***************************************************************************)
(* Inputs: price periods.  A period is one of a few shapes, of a length    *)
(* from just under the longest scale to MaxTail past it.                   *)
(***************************************************************************)
Shape(k, j) ==
  CASE k = 1 -> j + 1
    [] k = 2 -> 2000 - 3 * j
    [] k = 3 -> 100 + 7 * (j % 3) + (j % 2)
    [] OTHER -> 50
Shapes == 1..3
Period(k, len) == [j \in 1..len |-> Shape(k, j - 1)]
PeriodLengths == (Scale3 - 1)..(Scale3 + MaxTail)

Signals == {-2, 0, 2}
Thresholds == {-1, 0, 1}
Strides == 1..MaxStep

(***************************************************************************)
(* evaluate_performance (Policy A) and evaluate_performance2 (Policy B).   *)
(***************************************************************************)
\* line 145 / 175: the loop runs while i < len(prices) - 1
InLoop(p, k) == k < Len(p) - 1
\* line 147: dps[i - 720]
SignalAt(d, k) == At(d, k - Scale3)
\* lines 149, 153, 179, 183: prices[i]
PriceAt(p, k) == At(p, k)
\* line 145: the next value of range(720, len(prices) - 1, step)
\* faulty variant: the stride is ignored
NextI_Every(k, st) == k + 1
NextI(k, st) == k + st

\* faulty variant: Policy A buys without the position guard
CanBuyA_NoGuard(sig, th, pos) == sig > th
\* line 147
CanBuyA(sig, th, pos) == sig > th /\ pos <= 0
\* faulty variant: Policy A sells only what it holds
CanSellA_LongOnly(sig, th, pos) == sig < -th /\ pos > 0
\* line 151
CanSellA(sig, th, pos) == sig < -th /\ pos >= 0
\* faulty variant: a signal equal to the threshold buys
CanBuyB_Weak(sig, th) == sig >= th
\* line 177
CanBuyB(sig, th) == sig > th
\* line 181
CanSellB(sig, th) == sig < -th

\* faulty variant: a short position is never covered
CloseOut_NoCover(bal, pos, p) ==
  IF pos = 1 THEN bal + At(p, Len(p) - 1) ELSE bal
\* lines 155-159: the close-out of an open position at the final price
CloseOut(bal, pos, p) ==
  LET b1 == IF pos = 1 THEN bal + At(p, Len(p) - 1) ELSE bal
  IN  IF pos = -1 THEN b1 - At(p, Len(p) - 1) ELSE b1

\* the variables a specification does not use
IdleSim ==
  /\ t = 0 /\ step = 1
  /\ position = 0 /\ bank_balance = 0 /\ bitcoin = 0 /\ bank_balance2 = 0
  /\ tradesA = <<>> /\ evalA = <<>> /\ tradesB = <<>> /\ evalB = <<>>
IdleWin == n = 0 /\ m = 0 /\ ts = <<>>
IdlePipe ==
  /\ X = <<>> /\ Y = <<>> /\ w = <<0, 0, 0, 0>>
  /\ s1 = "s1" /\ s2 = "s2" /\ s3 = "s3"
IdleCen == centers = <<>> /\ ptp = <<>> /\ order = <<>> /\ chosen = <<>>

InitSim ==
  /\ \E k \in Shapes, len \in PeriodLengths : prices = Period(k, len)
  /\ IdleWin /\ IdlePipe /\ IdleCen /\ err = "none"
  /\ dps \in [1..Max(Len(prices) - Scale3 - 1, 0) -> Signals]
  /\ t \in Thresholds
  /\ step \in Strides
  /\ pc = "A_for"
  /\ i = Scale3
  /\ position = 0
  /\ bank_balance = 0
  /\ bitcoin = 0
  /\ bank_balance2 = 0
  /\ tradesA = <<>>
  /\ evalA = <<>>
  /\ tradesB = <<>>
  /\ evalB = <<>>

A_For ==
  /\ pc = "A_for"
  /\ pc' = IF InLoop(prices, i) THEN "A_buy" ELSE "A_close"
  /\ UNCHANGED <<notSim, simIn, i, simA, simB>>

A_Buy ==
  /\ pc = "A_buy"
  /\ InRange(dps, i - Scale3)
  /\ evalA' = Append(evalA, i)
  /\ IF CanBuyA(SignalAt(dps, i), t, position)
       THEN /\ position' = position + 1
            /\ bank_balance' = bank_balance - PriceAt(prices, i)
            /\ tradesA' = Append(tradesA, <<"buy", i>>)
       ELSE UNCHANGED <<position, bank_balance, tradesA>>
  /\ pc' = "A_sell"
  /\ UNCHANGED <<notSim, simIn, i, simB>>

A_Sell ==
  /\ pc = "A_sell"
  /\ IF CanSellA(SignalAt(dps, i), t, position)
       THEN /\ position' = position - 1
            /\ bank_balance' = bank_balance + PriceAt(prices, i)
            /\ tradesA' = Append(tradesA, <<"sell", i>>)
       ELSE UNCHANGED <<position, bank_balance, tradesA>>
  /\ i' = NextI(i, step)
  /\ pc' = "A_for"
  /\ UNCHANGED <<notSim, simIn, evalA, simB>>

A_Close ==
  /\ pc = "A_close"
  /\ bank_balance' = CloseOut(bank_balance, position, prices)
  /\ i' = Scale3
  /\ pc' = "B_for"
  /\ UNCHANGED <<notSim, simIn, position, tradesA, evalA, simB>>

B_For ==
  /\ pc = "B_for"
  /\ pc' = IF InLoop(prices, i) THEN "B_buy" ELSE "done"
  /\ UNCHANGED <<notSim, simIn, i, simA, simB>>

B_Buy ==
  /\ pc = "B_buy"
  /\ InRange(dps, i - Scale3)
  /\ evalB' = Append(evalB, i)
  /\ IF CanBuyB(SignalAt(dps, i), t)
       THEN /\ bitcoin' = bitcoin + 1
            /\ bank_balance2' = bank_balance2 - PriceAt(prices, i)
            /\ tradesB' = Append(tradesB, <<"buy", i>>)
       ELSE UNCHANGED <<bitcoin, bank_balance2, tradesB>>
  /\ pc' = "B_sell"
  /\ UNCHANGED <<notSim, simIn, i, simA>>

B_Sell ==
  /\ pc = "B_sell"
  /\ IF CanSellB(SignalAt(dps, i), t)
       THEN /\ bitcoin' = bitcoin - 1
            /\ bank_balance2' = bank_balance2 + PriceAt(prices, i)
            /\ tradesB' = Append(tradesB, <<"sell", i>>)
       ELSE UNCHANGED <<bitcoin, bank_balance2, tradesB>>
  /\ i' = NextI(i, step)
  /\ pc' = "B_for"
  /\ UNCHANGED <<notSim, simIn, evalB, simA>>

NextSim == A_For \/ A_Buy \/ A_Sell \/ A_Close \/ B_For \/ B_Buy \/ B_Sell

SpecSim == InitSim /\ [][NextSim]_vars

(***************************************************************************)
(* Definitions the properties of the simulators are stated with.           *)
(***************************************************************************)
\* the prices (by 0-based timestep) of the logged trades of one kind
RECURSIVE SumTrades(_, _, _)
SumTrades(log, kind, p) ==
  IF log = <<>> THEN 0
  ELSE (IF log[1][1] = kind THEN p[log[1][2] + 1] ELSE 0)
       + SumTrades(Tail(log), kind, p)

Kinds(log) == [k \in 1..Len(log) |-> log[k][1]]
FinalPrice == prices[Len(prices)]
AReturned == pc \in {"B_for", "B_buy", "B_sell", "done"}

\* the signal indices (0-based) that are multiples of the stride
StrideIdx == {j \in 0..(Len(dps) - 1) : j % step = 0}
\* the timesteps aligned to them, in order
StrideSteps ==
  [k \in 1..Cardinality(StrideIdx) |-> Scale3 + (k - 1) * step]
IsPrefix(a, b) == Len(a) <= Len(b) /\ a = SubSeq(b, 1, Len(a))

\* the signal at 0-based signal index j
Sig(j) == dps[j + 1]
\* the price aligned to 0-based signal index j
AlignedPrice(j) == prices[j + Scale3 + 1]

\* C1: Policy A's position stays in {-1, 0, +1}; it rises only from a
\* position <= 0 and falls only from a position >= 0.
Thm_C1 ==
  /\ [](position \in {-1, 0, 1})
  /\ [][/\ position' > position => (position <= 0 /\ position' = position + 1)
        /\ position' < position => (position >= 0 /\ position' = position - 1)]_vars

\* a run in which a buy signal was evaluated while long, and left position at +1
Wit_C1 ==
  /\ pc = "A_close"
  /\ position = 1
  /\ \E k \in 1..Len(evalA) :
       /\ SignalAt(dps, evalA[k]) > t
       /\ \A q \in 1..Len(tradesA) : tradesA[q] # <<"buy", evalA[k]>>

\* C2: the balance Policy A returns is (prices sold at) - (prices bought at),
\* plus the final price when it ended long, minus it when it ended short.
Thm_C2 ==
  AReturned =>
    /\ position \in {-1, 0, 1}
    /\ bank_balance =
         SumTrades(tradesA, "sell", prices) - SumTrades(tradesA, "buy", prices)
         + (IF position = 1 THEN FinalPrice ELSE 0)
         - (IF position = -1 THEN FinalPrice ELSE 0)

\* Policy A returned after ending short, with at least three trades
Wit_C2 == pc = "done" /\ position = -1 /\ Len(tradesA) >= 3

\* the Signal is above threshold on its first k timesteps and below
\* -threshold on the rest, at least lo of them
CrossesDown(lo) ==
  \E k \in 1..(Len(dps) - lo) :
    /\ \A j \in 1..k : dps[j] > t
    /\ \A j \in (k + 1)..Len(dps) : dps[j] < -t
\* the 0-based timestep of the first below -threshold signal
FirstBelow == Scale3 + (CHOOSE k \in 1..Len(dps) : dps[k + 1] < -t)

\* C3 as stated (on thresholds >= 0): with stride 1, a Signal that crosses
\* above threshold and then below -threshold gives one buy followed by two
\* sells and position -1.
Orig_C3 ==
  (pc = "A_close" /\ step = 1 /\ t >= 0 /\ CrossesDown(1)) =>
    (Kinds(tradesA) = <<"buy", "sell", "sell">> /\ position = -1)

\* C3 amended: with stride 1 and threshold >= 0, a Signal above threshold and
\* then below -threshold for at least two timesteps gives a buy at the first
\* timestep, sells at the first two timesteps below -threshold, position -1,
\* and a final balance of exactly those trades and the close-out.
Thm_C3 ==
  (step = 1 /\ t >= 0 /\ CrossesDown(2)) =>
    /\ pc = "A_close" =>
         /\ tradesA = <<<<"buy", Scale3>>, <<"sell", FirstBelow>>,
                        <<"sell", FirstBelow + 1>>>>
         /\ position = -1
    /\ AReturned =>
         bank_balance = AlignedPrice(FirstBelow + 1 - Scale3)
                        + AlignedPrice(FirstBelow - Scale3)
                        - AlignedPrice(0) - FinalPrice

\* Policy A returned from such a run, of four timesteps
Wit_C3 ==
  /\ pc = "done" /\ step = 1 /\ t >= 0 /\ CrossesDown(2) /\ Len(dps) = 4
  /\ Kinds(tradesA) = <<"buy", "sell", "sell">>

\* the number of stride timesteps among signal indices 0..j whose signal
\* satisfies Q, and the sum of their aligned prices
RECURSIVE CountBuys(_), CountSells(_), SumBuys(_), SumSells(_)
CountBuys(j) ==
  IF j < 0 THEN 0
  ELSE (IF j % step = 0 /\ Sig(j) > t THEN 1 ELSE 0) + CountBuys(j - 1)
CountSells(j) ==
  IF j < 0 THEN 0
  ELSE (IF j % step = 0 /\ Sig(j) < -t THEN 1 ELSE 0) + CountSells(j - 1)
SumBuys(j) ==
  IF j < 0 THEN 0
  ELSE (IF j % step = 0 /\ Sig(j) > t THEN AlignedPrice(j) ELSE 0)
       + SumBuys(j - 1)
SumSells(j) ==
  IF j < 0 THEN 0
  ELSE (IF j % step = 0 /\ Sig(j) < -t THEN AlignedPrice(j) ELSE 0)
       + SumSells(j - 1)
LastIdx == Len(dps) - 1
\* every evaluated signal is a buy signal and not a sell signal
BuyRun == \A j \in StrideIdx : Sig(j) > t /\ ~(Sig(j) < -t)

\* C4: Policy B trades one unit on every evaluated buy or sell signal whatever
\* its inventory: the returned inventory is buys - sells, the returned balance
\* is the trades' prices with no close-out, and on a run of buy signals the
\* inventory is the run's length while Policy A's position is at most 1.
Thm_C4 ==
  pc = "done" =>
    /\ bitcoin = CountBuys(LastIdx) - CountSells(LastIdx)
    /\ bank_balance2 = SumSells(LastIdx) - SumBuys(LastIdx)
    /\ BuyRun => /\ bitcoin = Cardinality(StrideIdx)
                 /\ position = Min(1, Cardinality(StrideIdx))

\* Policy B returned an inventory of 3 or more where Policy A ended at +1
Wit_C4 == pc = "done" /\ BuyRun /\ bitcoin >= 3 /\ position = 1

\* C9: both policies evaluate exactly the timesteps aligned to the signal
\* indices that are multiples of the stride, in order; position, inventory and
\* balance change only at such a timestep (or at Policy A's close-out), by one
\* unit and the price aligned to the signal index.
Thm_C9 ==
  /\ [](/\ IsPrefix(evalA, StrideSteps)
        /\ IsPrefix(evalB, StrideSteps)
        /\ AReturned => evalA = StrideSteps
        /\ pc = "done" => evalB = StrideSteps)
  /\ [][/\ (position' # position \/ (bank_balance' # bank_balance /\ pc # "A_close"))
             => \E j \in StrideIdx :
                  /\ i = j + Scale3
                  /\ \/ /\ Sig(j) > t /\ position' = position + 1
                        /\ bank_balance' = bank_balance - AlignedPrice(j)
                     \/ /\ Sig(j) < -t /\ position' = position - 1
                        /\ bank_balance' = bank_balance + AlignedPrice(j)
        /\ (bitcoin' # bitcoin \/ bank_balance2' # bank_balance2)
             => \E j \in StrideIdx :
                  /\ i = j + Scale3
                  /\ \/ /\ Sig(j) > t /\ bitcoin' = bitcoin + 1
                        /\ bank_balance2' = bank_balance2 - AlignedPrice(j)
                     \/ /\ Sig(j) < -t /\ bitcoin' = bitcoin - 1
                        /\ bank_balance2' = bank_balance2 + AlignedPrice(j)]_vars

\* both policies returned from a run with stride 2 that traded at the second
\* evaluated timestep and skipped a timestep whose signal asked for a trade
Wit_C9 ==
  /\ pc = "done" /\ step = 2 /\ Len(dps) >= 4
  /\ Sig(1) > t /\ Sig(3) < -t
  /\ \E k \in 1..Len(tradesA) : tradesA[k][2] = Scale3 + 2
  /\ \E k \in 1..Len(tradesB) : tradesB[k][2] = Scale3 + 2
  /\ evalA = <<Scale3, Scale3 + 2>>

(***************************************************************************)
(* generate_timeseries (the Window Extractor), lines 13-29.  numpy's       *)
(* np.empty raises ValueError on a negative dimension; a row assignment    *)
(* raises ValueError when the value does not broadcast to the target and   *)
(* an index out of range raises IndexError.                                *)
(***************************************************************************)
\* a cell np.empty allocated and nothing has written
Uninit == [uninit |-> TRUE]
\* np.empty((rows, cols)) succeeds
NpEmptyOk(rows, cols) == rows >= 0 /\ cols >= 0
NpEmpty(rows, cols) == [r \in 1..rows |-> [c \in 1..cols |-> Uninit]]
\* the number of columns row[:k] selects
ColsUpTo(row, k) == Norm(k, Len(row))
\* a value of length len broadcasts to cnt columns
Broadcasts(len, cnt) == len = cnt \/ len = 1
\* row[:k] = v
SetCols(row, k, v) ==
  [c \in 1..Len(row) |->
     IF c <= ColsUpTo(row, k) THEN (IF Len(v) = 1 THEN v[1] ELSE v[c])
     ELSE row[c]]
\* row[k] = v
SetCol(row, k, v) ==
  [c \in 1..Len(row) |->
     IF c = (IF k >= 0 THEN k + 1 ELSE Len(row) + k + 1) THEN v ELSE row[c]]

\* line 24
RowCount(p, len) == Len(p) - len
\* line 27: prices[i:i + n]
FeatureOf(p, k, len) == Slice(p, k, k + len)
\* faulty variant: the label is the change over the whole window
LabelOf_Span(p, k, len) == At(p, k + len) - At(p, k)
\* line 28: prices[i + n] - prices[i + n - 1]
LabelOf(p, k, len) == At(p, k + len) - At(p, k + len - 1)
LabelDefined(p, k, len) == InRange(p, k + len) /\ InRange(p, k + len - 1)

PriceVals == {1, 2, 4}
SeqsUpTo(S, k) == UNION {[1..len -> S] : len \in 0..k}
WinInputs == SeqsUpTo(PriceVals, MaxLen) \cup {<<1, 2, 3, 4, 5>>}
WindowLengths == (-2)..(MaxLen + 1)

InitWin ==
  /\ prices \in WinInputs
  /\ n \in WindowLengths
  /\ m = 0 /\ ts = <<>>
  /\ pc = "gt_alloc"
  /\ i = 0
  /\ dps = <<>>
  /\ IdleSim /\ IdlePipe /\ IdleCen /\ err = "none"

notWin == <<dps, t, step, simA, simB, pipeV, cenV>>

GT_Alloc ==
  /\ pc = "gt_alloc"
  /\ m' = RowCount(prices, n)
  /\ IF NpEmptyOk(m', n + 1)
       THEN /\ ts' = NpEmpty(m', n + 1)
            /\ pc' = "gt_for"
            /\ err' = err
       ELSE /\ err' = "ValueError"
            /\ pc' = "raised"
            /\ ts' = ts
  /\ UNCHANGED <<notWin, prices, n, i>>

GT_For ==
  /\ pc = "gt_for"
  /\ pc' = IF i < m THEN "gt_feature" ELSE "gt_done"
  /\ UNCHANGED <<notWin, prices, n, m, ts, i, err>>

GT_Feature ==
  /\ pc = "gt_feature"
  /\ IF Broadcasts(Len(FeatureOf(prices, i, n)), ColsUpTo(ts[i + 1], n))
       THEN /\ ts' = [ts EXCEPT ![i + 1] = SetCols(@, n, FeatureOf(prices, i, n))]
            /\ pc' = "gt_label"
            /\ err' = err
       ELSE /\ err' = "ValueError"
            /\ pc' = "raised"
            /\ ts' = ts
  /\ UNCHANGED <<notWin, prices, n, m, i>>

GT_Label ==
  /\ pc = "gt_label"
  /\ IF LabelDefined(prices, i, n) /\ InRange(ts[i + 1], n)
       THEN /\ ts' = [ts EXCEPT ![i + 1] = SetCol(@, n, LabelOf(prices, i, n))]
            /\ i' = i + 1
            /\ pc' = "gt_for"
            /\ err' = err
       ELSE /\ err' = "IndexError"
            /\ pc' = "raised"
            /\ UNCHANGED <<ts, i>>
  /\ UNCHANGED <<notWin, prices, n, m>>

NextWin == GT_Alloc \/ GT_For \/ GT_Feature \/ GT_Label

SpecWin == InitWin /\ [][NextWin]_vars

\* the window the specification asks for at row r (0-based): the feature
\* price[r .. r+n-1] followed by the label price[r+n] - price[r+n-1]
WindowRow(r) ==
  [c \in 1..(n + 1) |->
     IF c <= n THEN prices[r + c] ELSE prices[r + n + 1] - prices[r + n]]

\* C6: for 0 < n < L the extractor returns exactly L-n rows, row r holding
\* price[r .. r+n-1] and the label price[r+n] - price[r+n-1], and never
\* changes the price sequence it was given.
Thm_C6 ==
  /\ []((pc = "gt_done" /\ 0 < n /\ n < Len(prices)) =>
          /\ Len(ts) = Len(prices) - n
          /\ \A r \in 0..(Len(prices) - n - 1) : ts[r + 1] = WindowRow(r))
  /\ [][prices' = prices]_vars

\* the specification's example: prices [1,2,3,4,5], n = 2
Wit_C6 ==
  /\ pc = "gt_done" /\ prices = <<1, 2, 3, 4, 5>> /\ n = 2
  /\ ts = <<<<1, 2, 1>>, <<2, 3, 1>>, <<3, 4, 1>>>>

\* C7: on a non-empty price sequence, a window length n >= L or n <= 0 never
\* yields a result: the extractor fails.
Orig_C7 ==
  (Len(prices) >= 1 /\ (n >= Len(prices) \/ n <= 0)) => pc # "gt_done"

(***************************************************************************)
(* linear_regression_vars (lines 68-90) and predict_dps (lines 110-129).   *)
(* The kernel estimate predict_dpi(x, s) is a real number determined by    *)
(* the window x and the library s; it is kept as the pair it is computed   *)
(* from, and the blend as the weights and the three estimates it combines. *)
(***************************************************************************)
\* lines 49-65: num / den over the centers of s, for the query x
predict_dpi(x, s) == [x |-> x, s |-> s]
\* lines 85-87, 124-126: prices[i - scale:i]
TrailingWindow(p, k, scale) == Slice(p, k - scale, k)
\* line 84: prices[i + 1] - prices[i]
RealizedChange(p, k) == At(p, k + 1) - At(p, k)
\* line 127-128: float(w0 + w1 * dp1 + w2 * dp2 + w3 * dp3)
Blend(wts, dp1, dp2, dp3) == [w |-> wts, dp1 |-> dp1, dp2 |-> dp2, dp3 |-> dp3]
\* faulty variant: the loop stops one timestep early
Eligible_StopEarly(p, k) == k < Len(p) - 2
\* lines 83, 123: i in range(720, len(prices) - 1)
Eligible(p, k) == k < Len(p) - 1
\* lines 81-82: the number of rows of X and Y
DesignRows(p) == Len(p) - (Scale3 + 1)

Weights == {<<0, 1, 1, 1>>, <<2, 3, -1, 1>>}

InitPipe ==
  /\ \E k \in Shapes, len \in PeriodLengths : prices = Period(k, len)
  /\ pc \in {"lrv_alloc", "pd_for"}
  /\ w \in (IF pc = "pd_for" THEN Weights ELSE {<<0, 0, 0, 0>>})
  /\ i = Scale3
  /\ dps = <<>>
  /\ X = <<>> /\ Y = <<>>
  /\ s1 = "s1" /\ s2 = "s2" /\ s3 = "s3"
  /\ IdleSim /\ IdleWin /\ IdleCen /\ err = "none"

notPipe == <<t, step, simA, simB, winV, cenV>>

LRV_Alloc ==
  /\ pc = "lrv_alloc"
  /\ IF NpEmptyOk(DesignRows(prices), 3)
       THEN /\ X' = NpEmpty(DesignRows(prices), 3)
            /\ Y' = [r \in 1..DesignRows(prices) |-> Uninit]
            /\ pc' = "lrv_for"
            /\ err' = err
       ELSE /\ err' = "ValueError"
            /\ pc' = "raised"
            /\ UNCHANGED <<X, Y>>
  /\ UNCHANGED <<notPipe, prices, dps, i, w, s1, s2, s3>>

LRV_For ==
  /\ pc = "lrv_for"
  /\ pc' = IF Eligible(prices, i) THEN "lrv_row" ELSE "lrv_done"
  /\ UNCHANGED <<notPipe, prices, dps, i, pipeV, err>>

LRV_Row ==
  /\ pc = "lrv_row"
  /\ InRange(X, i - Scale3)
  /\ X' = [X EXCEPT ![i - Scale3 + 1] =
             <<predict_dpi(TrailingWindow(prices, i, Scale1), s1),
               predict_dpi(TrailingWindow(prices, i, Scale2), s2),
               predict_dpi(TrailingWindow(prices, i, Scale3), s3)>>]
  /\ Y' = [Y EXCEPT ![i - Scale3 + 1] = RealizedChange(prices, i)]
  /\ i' = i + 1
  /\ pc' = "lrv_for"
  /\ UNCHANGED <<notPipe, prices, dps, w, s1, s2, s3, err>>

PD_For ==
  /\ pc = "pd_for"
  /\ pc' = IF Eligible(prices, i) THEN "pd_row" ELSE "pd_done"
  /\ UNCHANGED <<notPipe, prices, dps, i, pipeV, err>>

PD_Row ==
  /\ pc = "pd_row"
  /\ dps' = Append(dps,
               Blend(w, predict_dpi(TrailingWindow(prices, i, Scale1), s1),
                        predict_dpi(TrailingWindow(prices, i, Scale2), s2),
                        predict_dpi(TrailingWindow(prices, i, Scale3), s3)))
  /\ i' = i + 1
  /\ pc' = "pd_for"
  /\ UNCHANGED <<notPipe, prices, pipeV, err>>

NextPipe == LRV_Alloc \/ LRV_For \/ LRV_Row \/ PD_For \/ PD_Row

SpecPipe == InitPipe /\ [][NextPipe]_vars

\* the blend of the three kernel estimates the Ensemble Predictor computes
\* in its iteration for timestep k
BlendFor(k) ==
  [w |-> w,
   dp1 |-> [x |-> Slice(prices, k - Scale1, k), s |-> s1],
   dp2 |-> [x |-> Slice(prices, k - Scale2, k), s |-> s2],
   dp3 |-> [x |-> Slice(prices, k - Scale3, k), s |-> s3]]
\* the timesteps a simulator with stride st evaluates (lines 145, 175)
SimSteps(st) ==
  {k \in Scale3..(Len(prices) - 2) : (k - Scale3) % st = 0}

\* C5: for a period with an eligible timestep the Signal has exactly
\* (period length - longest scale - 1) entries, entry j is the blend for
\* timestep longest scale + j, and every index i - longest scale a simulator
\* reads is an index of the Signal.
Thm_C5 ==
  (pc = "pd_done" /\ Len(prices) >= Scale3 + 2) =>
    /\ Len(dps) = Len(prices) - Scale3 - 1
    /\ \A j \in 0..(Len(dps) - 1) : dps[j + 1] = BlendFor(Scale3 + j)
    /\ \A st \in Strides : \A k \in SimSteps(st) :
         0 <= k - Scale3 /\ k - Scale3 < Len(dps)

\* predict_dps returned the Signal of a period four prices past the longest
\* scale: three entries, the last read by a stride-2 simulator
Wit_C5 ==
  /\ pc = "pd_done" /\ Len(prices) = Scale3 + 4 /\ Len(dps) = 3
  /\ Scale3 + 2 \in SimSteps(2)

\* the trailing window of a scale that ends at timestep k: its last element
\* is price[k]
WindowEndingAt(k, scale) == [c \in 1..scale |-> prices[k - scale + c + 1]]

\* C10: the trainer fills one row per timestep i, longest scale <= i <=
\* period length - 2, pairing the label price[i+1] - price[i] with the kernel
\* estimates of the three trailing windows that end at timestep i.
Orig_C10 ==
  pc = "lrv_done" =>
    /\ Len(X) = Cardinality(Scale3..(Len(prices) - 2))
    /\ \A k \in Scale3..(Len(prices) - 2) :
         /\ Y[k - Scale3 + 1] = prices[k + 2] - prices[k + 1]
         /\ \A c \in 1..3 : X[k - Scale3 + 1][c] # Uninit
         /\ X[k - Scale3 + 1][1].x = WindowEndingAt(k, Scale1)
         /\ X[k - Scale3 + 1][2].x = WindowEndingAt(k, Scale2)
         /\ X[k - Scale3 + 1][3].x = WindowEndingAt(k, Scale3)

(***************************************************************************)
(* choose_effective_centers, lines 45-47:                                  *)
(*   centers[np.argsort(np.ptp(centers, axis=1))[-n:]]                     *)
(* np.argsort's default sort is not stable: rows of equal range may come   *)
(* in any order.                                                           *)
(***************************************************************************)
SeqMax(row) == CHOOSE v \in {row[c] : c \in 1..Len(row)} :
                 \A c \in 1..Len(row) : row[c] <= v
SeqMin(row) == CHOOSE v \in {row[c] : c \in 1..Len(row)} :
                 \A c \in 1..Len(row) : v <= row[c]
\* np.ptp(centers, axis=1): max - min of each whole row
PtpRows(cs) == [r \in 1..Len(cs) |-> SeqMax(cs[r]) - SeqMin(cs[r])]
\* the results np.argsort(key) may return: the permutations of the 0-based
\* row numbers that put key in ascending order
ArgSorts(key) ==
  {o \in [1..Len(key) -> 0..(Len(key) - 1)] :
     /\ \A a, b \in 1..Len(key) : a # b => o[a] # o[b]
     /\ \A a \in 1..(Len(key) - 1) : key[o[a] + 1] <= key[o[a + 1] + 1]}
\* order[-n:]
LastN(o, k) == SliceFrom(o, -k)
\* centers[idx] for an index array idx
TakeRows(cs, idx) == [a \in 1..Len(idx) |-> At(cs, idx[a])]

CenterVals == {0, 1, 2}
Centroids == [1..(FeatureDim + 1) -> CenterVals]

InitCen ==
  /\ \E k \in 1..MaxK : centers \in [1..k -> Centroids]
  /\ n \in 0..MaxK
  /\ ptp = <<>> /\ order = <<>> /\ chosen = <<>>
  /\ pc = "ce_ptp"
  /\ prices = <<>> /\ dps = <<>> /\ i = 0
  /\ m = 0 /\ ts = <<>>
  /\ IdleSim /\ IdlePipe /\ err = "none"

notCen == <<prices, dps, t, step, i, simA, simB, m, ts, pipeV, err>>

CE_Ptp ==
  /\ pc = "ce_ptp"
  /\ ptp' = PtpRows(centers)
  /\ pc' = "ce_argsort"
  /\ UNCHANGED <<notCen, centers, n, order, chosen>>

CE_Argsort ==
  /\ pc = "ce_argsort"
  /\ order' \in ArgSorts(ptp)
  /\ pc' = "ce_take"
  /\ UNCHANGED <<notCen, centers, n, ptp, chosen>>

CE_Take ==
  /\ pc = "ce_take"
  /\ chosen' = TakeRows(centers, LastN(order, n))
  /\ pc' = "ce_done"
  /\ UNCHANGED <<notCen, centers, n, ptp, order>>

NextCen == CE_Ptp \/ CE_Argsort \/ CE_Take

SpecCen == InitCen /\ [][NextCen]_vars

\* the peak-to-peak range of centroid r (1-based) over its feature
\* coordinates only
FeaturePtp(r) ==
  LET f == SubSeq(centers[r], 1, FeatureDim) IN SeqMax(f) - SeqMin(f)
\* the rows (1-based) the selection returned
ChosenRows == {order[a] + 1 : a \in (Len(order) - Len(chosen) + 1)..Len(order)}

\* no two centroids have the same whole-row range: the order np.argsort
\* returns is then the only one possible
DistinctRanges ==
  \A a, b \in 1..Len(ptp) : a # b => ptp[a] # ptp[b]

\* C8: for 1 <= m <= k the selection returns at most m of the k centroids,
\* each an input centroid, and they are m centroids of largest feature-only
\* peak-to-peak range: no centroid left out has a larger feature range than
\* one returned.  (Stated on centroids of distinct whole-row ranges.)
Orig_C8 ==
  (pc = "ce_done" /\ 1 <= n /\ n <= Len(centers) /\ DistinctRanges) =>
    /\ Len(chosen) <= n
    /\ \A a \in 1..Len(chosen) : \E r \in 1..Len(centers) : chosen[a] = centers[r]
    /\ Cardinality(ChosenRows) = n
    /\ \A r \in ChosenRows : \A q \in (1..Len(centers)) \ ChosenRows :
         FeaturePtp(r) >= FeaturePtp(q)

====
